---------------------------- MODULE Spec2Model ----------------------------
(***************************************************************************)
(* TaskWeaver sidecar (src/agents/taskweaver/server.py): per-run bounded   *)
(* event queues, the /tw/run handler with its background sequence, the     *)
(* /tw/events stream generator and the /tw/tool-result sink.               *)
(*                                                                         *)
(* The server runs on one asyncio event loop: the code between two         *)
(* suspension points (a network await, asyncio.sleep, a generator yield)   *)
(* runs without interleaving, so each action below is one such stretch.    *)
(* "await enqueue(...)" and "await auth_or_403(...)" never suspend.        *)
(***************************************************************************)
EXTENDS Integers, Sequences, FiniteSets, TLC

(***************************************************************************)
(* Bounds of the model.                                                    *)
(***************************************************************************)
MaxCalls == 1
MaxSubs == 2
MaxToolResults == 1
MaxToolCalls == 1

Calls == 1..MaxCalls
Subs == 1..MaxSubs
Reports == 1..MaxToolResults
Gateways == 1..MaxToolCalls

(***************************************************************************)
(* Program constants.                                                      *)
(***************************************************************************)
QueueMaxLen == 500

TW_SHARED_TOKEN == "replace-me"
chosen_tool == "geometry.createRoom"

(***************************************************************************)
(* Request inputs.  None stands for an absent JSON field / header.  Goals  *)
(* are texts, modelled as sequences of characters; NoGoal is the absent    *)
(* goal.                                                                   *)
(***************************************************************************)
None == "<None>"
NoGoal == <<None>>

Tokens == {TW_SHARED_TOKEN, "wrong", None}
BadTokens == Tokens \ {TW_SHARED_TOKEN}
RunIds == {"r1", "r2"}
GoalInputs == { <<"h", "i">>, <<"A", "d", "D">>, <<>>, NoGoal }
ToolInputs == {chosen_tool, None}
ResultInputs == {None, "{}", "{area:20}"}

\* The requests the clients send: every complete body and every body with
\* one field missing or empty under the valid token, and one complete and
\* one incomplete body under each bad token.
RunRequests ==
  [token : {TW_SHARED_TOKEN}, runId : RunIds, goal : GoalInputs]
    \cup [token : {TW_SHARED_TOKEN}, runId : {"", None}, goal : {<<"h", "i">>}]
    \cup [token : BadTokens, runId : {"r1", None}, goal : {<<"h", "i">>}]

ToolResultRequests ==
  [token : {TW_SHARED_TOKEN}, runId : RunIds, tool : ToolInputs,
   result : ResultInputs]
    \cup [token : {TW_SHARED_TOKEN}, runId : {"", None}, tool : {chosen_tool},
          result : {None}]
    \cup [token : BadTokens, runId : {"r1", None}, tool : {chosen_tool},
          result : {None}]

\* Python truthiness of the values above: None, "" and {} are falsy.
Truthy(v) == v \notin {None, "", "{}"}

\* The bodies sent to /tw/tool-call and the statuses the tool executor
\* answers with.
ToolCallRequests ==
  [token : {TW_SHARED_TOKEN}, name : {chosen_tool, "", None}]
    \cup [token : BadTokens, name : {chosen_tool, None}]
DownstreamStatuses == {200, 404, 500}

(***************************************************************************)
(* str.lower and the substring test "k in t" of is_actionable.             *)
(***************************************************************************)
UpperChars == <<"A","B","C","D","E","F","G","H","I","J","K","L","M",
                "N","O","P","Q","R","S","T","U","V","W","X","Y","Z">>
LowerChars == <<"a","b","c","d","e","f","g","h","i","j","k","l","m",
                "n","o","p","q","r","s","t","u","v","w","x","y","z">>

LowerChar(ch) ==
  IF \E i \in 1..Len(UpperChars) : UpperChars[i] = ch
  THEN LowerChars[CHOOSE i \in 1..Len(UpperChars) : UpperChars[i] = ch]
  ELSE ch

Lower(text) == [i \in 1..Len(text) |-> LowerChar(text[i])]

Contains(t, k) ==
  \E i \in 0..(Len(t) - Len(k)) : \A j \in 1..Len(k) : t[i + j] = k[j]

keywords ==
  { <<"c","r","e","a","t","e">>, <<"b","u","i","l","d">>, <<"a","d","d">>,
    <<"d","r","a","w">>, <<"m","a","k","e">>,
    <<"g","e","n","e","r","a","t","e">>, <<"i","n","s","e","r","t">>,
    <<"r","o","o","m">>, <<"w","a","l","l">>, <<"d","o","o","r">>,
    <<"w","i","n","d","o","w">>, <<"c","o","l","u","m","n">>,
    <<"b","e","a","m">>, <<"r","o","o","f">>, <<"s","t","a","i","r">>,
    <<"s","l","a","b">>, <<"r","e","n","d","e","r">>,
    <<"t","o","k","e","n">>, <<"o","p","e","n","i","n","g","s">>,
    <<"p","a","r","t","i","t","i","o","n">> }

is_actionable(text) ==
  IF text = <<>> THEN FALSE
  ELSE LET t == Lower(text) IN \E k \in keywords : Contains(t, k)

(***************************************************************************)
(* Events.  Every event is a record of one shape; id is the position of    *)
(* the event in the enqueue history of its run and run is that run        *)
(* (bookkeeping, not fields of the program's dict).                        *)
(***************************************************************************)
Ev(type, status, tool, data) ==
  [id |-> 0, run |-> None, type |-> type, status |-> status, tool |-> tool,
   data |-> data]

AssistantEv(content) == Ev("assistant", "", "", content)
DoneEv == Ev("done", "success", "", "")
PlanEv == Ev("plan", "", chosen_tool, "Plan for: goal")
ActStartEv == Ev("act", "start", chosen_tool, "{width:4,depth:5,height:2.7}")
ActResultEv(tool, result) == Ev("act", "result", tool, result)
ErrorEv == Ev("error", "", "", "E_RUNTIME")
Heartbeat == Ev("heartbeat", "", "", "ok")

FallbackContent == "Got it. I'll help with that."
DefaultContent == "I understand. I'll plan the steps next."
FollowUpContent == "First step completed."

\* The replies of the reasoning backend to POST /api/ai-chat.
BackendReplies ==
  { [status |-> 200, response |-> "Sure.", message |-> None],
    [status |-> 500, response |-> None, message |-> None] }

\* data.get("response") or data.get("message") or "<default>"
ReplyContent(reply) ==
  IF Truthy(reply.response) THEN reply.response
  ELSE IF Truthy(reply.message) THEN reply.message
  ELSE DefaultContent


(***************************************************************************)
(* State.                                                                  *)
(*   RUN_QUEUES  the defaultdict: a function whose domain is the set of    *)
(*               run ids referenced so far, each mapped to its deque.      *)
(*   pc, run_id, goal, bg   one /tw/run request per call slot: position of *)
(*               the handler, its runId and goal, and the state of its     *)
(*               background_loop task.                                     *)
(*   spc, srun, connected   one /tw/events request per subscriber slot:    *)
(*               position of event_generator ("open": not started,         *)
(*               "waiting": suspended at the heartbeat yield or the sleep, *)
(*               "drain": suspended at the yield of an event), its run_id, *)
(*               and whether the client is still connected.                *)
(*   tr          one /tw/tool-result request per report slot: the status   *)
(*               of its response once handled.                             *)
(*   tc, tcResp  one /tw/tool-call request per gateway slot: position of   *)
(*               the handler and the status of its response (0: none yet). *)
(* History (not program state):                                            *)
(*   enqueued[r]   every event ever appended to run r's deque, in order.   *)
(*   evicted[r]    ids dropped by the deque's maxlen.                      *)
(*   popped[r]     ids removed by popleft, in order.                       *)
(*   delivered[s]  what subscriber s has been sent, in order.              *)
(*   appended[c]   what call c and its background_loop enqueued, in order. *)
(*   posts         the outbound HTTP requests made, in order.              *)
(***************************************************************************)
VARIABLES RUN_QUEUES, pc, run_id, goal, bg, spc, srun, connected,
          tr, enqueued, evicted, popped, delivered, appended,
          tc, tcResp, posts

vars == <<RUN_QUEUES, pc, run_id, goal, bg, spc, srun, connected,
          tr, enqueued, evicted, popped, delivered, appended,
          tc, tcResp, posts>>

runVars == <<pc, run_id, goal, bg>>
subVars == <<spc, srun, connected, delivered>>
queueVars == <<RUN_QUEUES, enqueued, evicted, appended>>
gwVars == <<tc, tcResp, posts>>

(***************************************************************************)
(* RUN_QUEUES[run_id]: defaultdict access, creating an empty deque for a   *)
(* key not seen before.                                                    *)
(***************************************************************************)
Touch(Q, r) ==
  IF r \in DOMAIN Q THEN Q
  ELSE [k \in DOMAIN Q \cup {r} |-> IF k = r THEN <<>> ELSE Q[k]]

\* Faulty appends, to test the properties against: a full deque that
\* refuses the new item, and an append at the left end.
dequeAppendDropNewest(q, event) ==
  IF Len(q) >= QueueMaxLen THEN q ELSE Append(q, event)

dequeAppendFront(q, event) ==
  IF Len(q) >= QueueMaxLen THEN <<event>> \o SubSeq(q, 1, Len(q) - 1)
  ELSE <<event>> \o q

\* deque(maxlen=500).append: a full deque drops its leftmost item.
dequeAppend(q, event) ==
  IF Len(q) >= QueueMaxLen THEN Append(Tail(q), event) ELSE Append(q, event)

\* Faulty enqueue onto one deque shared by all runs, to test the properties
\* against.
enqueueShared(Q, r, event) ==
  LET Q1 == Touch(Q, r)
  IN [k \in DOMAIN Q1 |-> dequeAppend(Q1[k], event)]

\* enqueue (lines 25-26): RUN_QUEUES[run_id].append(event).
enqueue(Q, r, event) ==
  LET Q1 == Touch(Q, r)
  IN [Q1 EXCEPT ![r] = dequeAppend(Q1[r], event)]

RECURSIVE enqueueAll(_, _, _)
enqueueAll(Q, r, events) ==
  IF events = <<>> THEN Q
  ELSE enqueueAll(enqueue(Q, r, Head(events)), r, Tail(events))

Ids(q) == {q[i].id : i \in 1..Len(q)}
QueueOf(r) == IF r \in DOMAIN RUN_QUEUES THEN RUN_QUEUES[r] ELSE <<>>

\* The events of one atomic stretch, numbered by their place in r's history.
Stamp(r, events) ==
  [i \in 1..Len(events) |->
     [events[i] EXCEPT !.id = Len(enqueued[r]) + i, !.run = r]]

(***************************************************************************)
(* Emit(r, events, c): call enqueue(r, e) for each e of events in turn, on *)
(* behalf of call c (0 for /tw/tool-result), and record the history.       *)
(***************************************************************************)
Emit(r, events, c) ==
  LET evs == Stamp(r, events)
      Q2 == enqueueAll(RUN_QUEUES, r, evs)
  IN /\ RUN_QUEUES' = Q2
     /\ enqueued' = [enqueued EXCEPT ![r] = @ \o evs]
     /\ evicted' = [evicted EXCEPT
                      ![r] = @ \cup ((Ids(QueueOf(r)) \cup Ids(evs)) \ Ids(Q2[r]))]
     /\ appended' = IF c \in Calls
                    THEN [appended EXCEPT ![c] = @ \o evs]
                    ELSE appended

Init ==
  /\ RUN_QUEUES = << >>
  /\ pc = [c \in Calls |-> "idle"]
  /\ run_id = [c \in Calls |-> None]
  /\ goal = [c \in Calls |-> NoGoal]
  /\ bg = [c \in Calls |-> "none"]
  /\ spc = [s \in Subs |-> "idle"]
  /\ srun = [s \in Subs |-> None]
  /\ connected = [s \in Subs |-> FALSE]
  /\ tr = [t \in Reports |-> "idle"]
  /\ enqueued = [r \in RunIds |-> <<>>]
  /\ evicted = [r \in RunIds |-> {}]
  /\ popped = [r \in RunIds |-> <<>>]
  /\ delivered = [s \in Subs |-> <<>>]
  /\ appended = [c \in Calls |-> <<>>]
  /\ tc = [k \in Gateways |-> "idle"]
  /\ tcResp = [k \in Gateways |-> 0]
  /\ posts = <<>>

\* Faulty gate that only asks for the header to be present, to test the
\* properties against.
auth_or_403Present(token) == token # None

\* auth_or_403: raises 403 unless the header equals the configured token.
auth_or_403(token) == token = TW_SHARED_TOKEN

(***************************************************************************)
(* POST /tw/run.                                                           *)
(***************************************************************************)
\* Faulty validation that only looks at runId, to test the properties
\* against.
RunRequestNoGoalCheck(c, token, rid, g) ==
  /\ pc[c] = "idle"
  /\ \A d \in Calls : d < c => pc[d] # "idle"
  /\ IF ~auth_or_403(token)
     THEN pc' = [pc EXCEPT ![c] = "403"] /\ UNCHANGED <<run_id, goal, posts>>
     ELSE IF ~Truthy(rid)
     THEN pc' = [pc EXCEPT ![c] = "400"] /\ UNCHANGED <<run_id, goal, posts>>
     ELSE /\ pc' = [pc EXCEPT ![c] = "backend"]
          /\ run_id' = [run_id EXCEPT ![c] = rid]
          /\ goal' = [goal EXCEPT ![c] = g]
          /\ posts' = Append(posts, <<"/api/ai-chat">>)
  /\ UNCHANGED <<bg, subVars, tr, queueVars, popped, tc, tcResp>>

\* Lines 34-68: auth, body parsing and validation, up to the await of the
\* reasoning-backend call (the POST is issued).  Call slots are used in
\* order.
RunRequest(c, token, rid, g) ==
  /\ pc[c] = "idle"
  /\ \A d \in Calls : d < c => pc[d] # "idle"
  /\ IF ~auth_or_403(token)
     THEN pc' = [pc EXCEPT ![c] = "403"] /\ UNCHANGED <<run_id, goal, posts>>
     ELSE IF ~Truthy(rid) \/ g = NoGoal \/ g = <<>>
     THEN pc' = [pc EXCEPT ![c] = "400"] /\ UNCHANGED <<run_id, goal, posts>>
     ELSE /\ pc' = [pc EXCEPT ![c] = "backend"]
          /\ run_id' = [run_id EXCEPT ![c] = rid]
          /\ goal' = [goal EXCEPT ![c] = g]
          /\ posts' = Append(posts, <<"/api/ai-chat">>)
  /\ UNCHANGED <<bg, subVars, tr, queueVars, popped, tc, tcResp>>

\* Lines 84-108 as data: the event enqueued by the classification step and
\* whether background_loop is spawned.
ClassifyEvent(g) == IF is_actionable(g) THEN PlanEv ELSE DoneEv

\* Faulty handler that never creates the background task, to test the
\* properties against.
SpawnedNever(g) == "none"

\* Line 107: create_task(background_loop()), reached for actionable goals.
Spawned(g) == IF is_actionable(g) THEN "spawned" ELSE "none"

\* Lines 68-78: the backend answered.  Status 200 enqueues the assistant
\* event; any other status only prints.  The handler then leaves the
\* "async with" block (closing the client may suspend).
RunBackendReply(c, reply) ==
  /\ pc[c] = "backend"
  /\ IF reply.status = 200
     THEN Emit(run_id[c], <<AssistantEv(ReplyContent(reply))>>, c)
     ELSE UNCHANGED queueVars
  /\ pc' = [pc EXCEPT ![c] = "classify"]
  /\ UNCHANGED <<run_id, goal, bg, subVars, tr, popped>>
  /\ UNCHANGED gwVars

\* Faulty return, to test the properties against: the handler runs the
\* background sequence to its end before it returns.
RunClassifyAwaitsBackground(c) ==
  /\ pc[c] = "classify"
  /\ Emit(run_id[c],
          IF is_actionable(goal[c])
          THEN <<PlanEv, ActStartEv, AssistantEv(FollowUpContent), DoneEv>>
          ELSE <<DoneEv>>, c)
  /\ pc' = [pc EXCEPT ![c] = "returned"]
  /\ bg' = [bg EXCEPT ![c] = IF is_actionable(goal[c]) THEN "finished" ELSE "none"]
  /\ UNCHANGED <<run_id, goal, subVars, tr, popped>>
  /\ UNCHANGED gwVars

\* Lines 85-108 after a reply: classification, done or plan, create_task,
\* return {runId}.  Nothing here suspends.
RunClassify(c) ==
  /\ pc[c] = "classify"
  /\ Emit(run_id[c], <<ClassifyEvent(goal[c])>>, c)
  /\ pc' = [pc EXCEPT ![c] = "returned"]
  /\ bg' = [bg EXCEPT ![c] = Spawned(goal[c])]
  /\ UNCHANGED <<run_id, goal, subVars, tr, popped>>
  /\ UNCHANGED gwVars

\* Lines 79-108: the backend call raised (network error, timeout, bad
\* JSON).  The except block enqueues the fallback line and the handler
\* runs on to its return without suspending.
RunBackendException(c) ==
  /\ pc[c] = "backend"
  /\ Emit(run_id[c], <<AssistantEv(FallbackContent), ClassifyEvent(goal[c])>>, c)
  /\ pc' = [pc EXCEPT ![c] = "returned"]
  /\ bg' = [bg EXCEPT ![c] = Spawned(goal[c])]
  /\ UNCHANGED <<run_id, goal, subVars, tr, popped>>
  /\ UNCHANGED gwVars

(***************************************************************************)
(* background_loop.                                                        *)
(***************************************************************************)
\* Lines 97-101: enqueue act(start), then sleep.
BgActStart(c) ==
  /\ bg[c] = "spawned"
  /\ Emit(run_id[c], <<ActStartEv>>, c)
  /\ bg' = [bg EXCEPT ![c] = "sleeping"]
  /\ UNCHANGED <<pc, run_id, goal, subVars, tr, popped>>
  /\ UNCHANGED gwVars

\* Faulty sequence that enqueues done before the follow-up message, to test
\* the properties against.
BgFinishDoneFirst(c) ==
  /\ bg[c] = "sleeping"
  /\ Emit(run_id[c], <<DoneEv, AssistantEv(FollowUpContent)>>, c)
  /\ bg' = [bg EXCEPT ![c] = "finished"]
  /\ UNCHANGED <<pc, run_id, goal, subVars, tr, popped>>
  /\ UNCHANGED gwVars

\* Lines 102-103: after the sleep, the follow-up assistant line and done.
BgFinish(c) ==
  /\ bg[c] = "sleeping"
  /\ Emit(run_id[c], <<AssistantEv(FollowUpContent), DoneEv>>, c)
  /\ bg' = [bg EXCEPT ![c] = "finished"]
  /\ UNCHANGED <<pc, run_id, goal, subVars, tr, popped>>
  /\ UNCHANGED gwVars

\* Faulty except block that enqueues the error and starts the sequence
\* again, to test the properties against.
BgFailRetries(c) ==
  /\ bg[c] \in {"spawned", "sleeping"}
  /\ Emit(run_id[c], <<ErrorEv>>, c)
  /\ bg' = [bg EXCEPT ![c] = "spawned"]
  /\ UNCHANGED <<pc, run_id, goal, subVars, tr, popped>>
  /\ UNCHANGED gwVars

\* Lines 104-105: a step raised; the except block enqueues the error event.
BgFail(c) ==
  /\ bg[c] \in {"spawned", "sleeping"}
  /\ Emit(run_id[c], <<ErrorEv>>, c)
  /\ bg' = [bg EXCEPT ![c] = "failed"]
  /\ UNCHANGED <<pc, run_id, goal, subVars, tr, popped>>
  /\ UNCHANGED gwVars

(***************************************************************************)
(* GET /tw/events/{run_id}.                                                *)
(***************************************************************************)
\* Lines 112, 126: auth, then the streaming response is returned; the
\* generator body has not started.  Subscriber slots are used in order.
Subscribe(s, token, rid) ==
  /\ spc[s] = "idle"
  /\ \A t \in Subs : t < s => spc[t] # "idle"
  /\ IF ~auth_or_403(token)
     THEN spc' = [spc EXCEPT ![s] = "403"] /\ UNCHANGED <<srun, connected>>
     ELSE /\ spc' = [spc EXCEPT ![s] = "open"]
          /\ srun' = [srun EXCEPT ![s] = rid]
          /\ connected' = [connected EXCEPT ![s] = TRUE]
  /\ UNCHANGED <<runVars, tr, queueVars, popped, delivered>>
  /\ UNCHANGED gwVars

\* What reaches the client of s when the generator yields item.
\* Faulty send that fans the item out to every open stream of the run, to
\* test the properties against.
SendBroadcast(s, item) ==
  [t \in Subs |-> IF connected[t] /\ srun[t] = srun[s]
                  THEN Append(delivered[t], item) ELSE delivered[t]]

Send(s, item) ==
  IF connected[s] THEN [delivered EXCEPT ![s] = Append(@, item)] ELSE delivered

\* Faulty start, to test the properties against: the buffered events are
\* sent before the heartbeat.
SubStartDrainFirst(s) ==
  /\ spc[s] = "open"
  /\ RUN_QUEUES' = [Touch(RUN_QUEUES, srun[s]) EXCEPT ![srun[s]] = <<>>]
  /\ popped' = [popped EXCEPT ![srun[s]] =
                  @ \o [i \in 1..Len(QueueOf(srun[s])) |-> QueueOf(srun[s])[i].id]]
  /\ delivered' = IF connected[s]
                  THEN [delivered EXCEPT ![s] = @ \o QueueOf(srun[s]) \o <<Heartbeat>>]
                  ELSE delivered
  /\ spc' = [spc EXCEPT ![s] = "waiting"]
  /\ UNCHANGED <<runVars, tr, srun, connected, enqueued, evicted, appended>>
  /\ UNCHANGED gwVars

\* Lines 115-117: first step of the generator: look the deque up (creating
\* it) and yield the heartbeat.
SubStart(s) ==
  /\ spc[s] = "open"
  /\ RUN_QUEUES' = Touch(RUN_QUEUES, srun[s])
  /\ delivered' = Send(s, Heartbeat)
  /\ spc' = [spc EXCEPT ![s] = "waiting"]
  /\ UNCHANGED <<runVars, tr, srun, connected, enqueued, evicted, popped,
                 appended>>
  /\ UNCHANGED gwVars

\* Faulty pops, to test the properties against: a pop at the right end,
\* and a yield that leaves the event in the deque.
popleftRight(s) ==
  LET q == RUN_QUEUES[srun[s]]
  IN /\ RUN_QUEUES' = [RUN_QUEUES EXCEPT ![srun[s]] = SubSeq(q, 1, Len(q) - 1)]
     /\ popped' = [popped EXCEPT ![srun[s]] = Append(@, q[Len(q)].id)]
     /\ delivered' = Send(s, q[Len(q)])

popleftPeek(s) ==
  LET q == RUN_QUEUES[srun[s]]
  IN /\ Len(popped[srun[s]]) <= Len(enqueued[srun[s]])
     /\ RUN_QUEUES' = RUN_QUEUES
     /\ popped' = [popped EXCEPT ![srun[s]] = Append(@, Head(q).id)]
     /\ delivered' = Send(s, Head(q))

\* Lines 122-123: popleft and yield the event.
popleft(s) ==
  LET q == RUN_QUEUES[srun[s]]
  IN /\ RUN_QUEUES' = [RUN_QUEUES EXCEPT ![srun[s]] = Tail(q)]
     /\ popped' = [popped EXCEPT ![srun[s]] = Append(@, Head(q).id)]
     /\ delivered' = Send(s, Head(q))

\* Lines 119-124: resumed after the heartbeat yield or the sleep:
\* is_disconnected() decides between break and the drain loop, whose first
\* test follows without suspension: either the first event is popped and
\* yielded, or the generator sleeps again.
SubCheck(s) ==
  /\ spc[s] = "waiting"
  /\ IF ~connected[s]
     THEN /\ spc' = [spc EXCEPT ![s] = "closed"]
          /\ UNCHANGED <<RUN_QUEUES, popped, delivered>>
     ELSE IF RUN_QUEUES[srun[s]] # <<>>
     THEN /\ popleft(s)
          /\ spc' = [spc EXCEPT ![s] = "drain"]
     ELSE UNCHANGED <<spc, RUN_QUEUES, popped, delivered>>
  /\ UNCHANGED <<runVars, tr, srun, connected, enqueued, evicted, appended>>
  /\ UNCHANGED gwVars

\* Lines 121-123: resumed after the yield of an event, "while queue" is
\* true: popleft and yield the next one.
SubPop(s) ==
  /\ spc[s] = "drain"
  /\ RUN_QUEUES[srun[s]] # <<>>
  /\ popleft(s)
  /\ UNCHANGED <<runVars, tr, spc, srun, connected, enqueued, evicted, appended>>
  /\ UNCHANGED gwVars

\* Faulty generator that ends once the queue is empty instead of polling
\* again, to test the properties against.
SubSleepEndsStream(s) ==
  /\ spc[s] = "drain"
  /\ RUN_QUEUES[srun[s]] = <<>>
  /\ spc' = [spc EXCEPT ![s] = "closed"]
  /\ UNCHANGED <<runVars, tr, queueVars, srun, connected, popped, delivered>>
  /\ UNCHANGED gwVars

\* Lines 121, 124: resumed after the yield of an event, "while queue" is
\* false: sleep for the polling interval.
SubSleep(s) ==
  /\ spc[s] = "drain"
  /\ RUN_QUEUES[srun[s]] = <<>>
  /\ spc' = [spc EXCEPT ![s] = "waiting"]
  /\ UNCHANGED <<runVars, tr, queueVars, srun, connected, popped, delivered>>
  /\ UNCHANGED gwVars

\* The client of s goes away (what request.is_disconnected() reports).
Disconnect(s) ==
  /\ spc[s] \in {"open", "waiting", "drain"}
  /\ connected[s]
  /\ connected' = [connected EXCEPT ![s] = FALSE]
  /\ UNCHANGED <<runVars, tr, queueVars, spc, srun, popped, delivered>>
  /\ UNCHANGED gwVars

(***************************************************************************)
(* POST /tw/tool-result.  Report slots are used in order.                  *)
(***************************************************************************)
\* Line 151: result or {"ok": True}
ReportedResult(result) == IF Truthy(result) THEN result ELSE "{ok:true}"

\* Faulty sink that records the report twice, to test the properties
\* against.
ToolResultTwice(t, token, rid, tool, result) ==
  /\ tr[t] = "idle"
  /\ \A u \in Reports : u < t => tr[u] # "idle"
  /\ IF ~auth_or_403(token)
     THEN tr' = [tr EXCEPT ![t] = "403"] /\ UNCHANGED queueVars
     ELSE IF ~Truthy(rid) \/ ~Truthy(tool)
     THEN tr' = [tr EXCEPT ![t] = "400"] /\ UNCHANGED queueVars
     ELSE /\ Emit(rid, <<ActResultEv(tool, ReportedResult(result)),
                         ActResultEv(tool, ReportedResult(result))>>, 0)
          /\ tr' = [tr EXCEPT ![t] = "200"]
  /\ UNCHANGED <<runVars, subVars, popped>>
  /\ UNCHANGED gwVars

\* Lines 144-152: auth, validation, one enqueue, the answer.
ToolResult(t, token, rid, tool, result) ==
  /\ tr[t] = "idle"
  /\ \A u \in Reports : u < t => tr[u] # "idle"
  /\ IF ~auth_or_403(token)
     THEN tr' = [tr EXCEPT ![t] = "403"] /\ UNCHANGED queueVars
     ELSE IF ~Truthy(rid) \/ ~Truthy(tool)
     THEN tr' = [tr EXCEPT ![t] = "400"] /\ UNCHANGED queueVars
     ELSE /\ Emit(rid, <<ActResultEv(tool, ReportedResult(result))>>, 0)
          /\ tr' = [tr EXCEPT ![t] = "200"]
  /\ UNCHANGED <<runVars, subVars, popped>>
  /\ UNCHANGED gwVars

(***************************************************************************)
(* The server: any request may arrive at any time, any suspended          *)
(* coroutine may be resumed.                                               *)
(***************************************************************************)
(***************************************************************************)
(* /tw/tool-call (lines 128-140).  The gateway touches no queue: it        *)
(* forwards the call and relays the executor's status.                     *)
(***************************************************************************)
\* Lines 130-138: auth, body parsing and validation, up to the await of the
\* downstream POST.  Gateway slots are used in order.
ToolCallRequest(k, token, name) ==
  /\ tc[k] = "idle"
  /\ \A j \in Gateways : j < k => tc[j] # "idle"
  /\ IF ~auth_or_403(token)
     THEN tc' = [tc EXCEPT ![k] = "403"] /\ UNCHANGED posts
     ELSE IF ~Truthy(name)
     THEN tc' = [tc EXCEPT ![k] = "400"] /\ UNCHANGED posts
     ELSE /\ tc' = [tc EXCEPT ![k] = "calling"]
          /\ posts' = Append(posts, <<"/api/tools", name>>)
  /\ UNCHANGED <<runVars, subVars, tr, queueVars, popped, tcResp>>

\* Line 140: the executor answered; its status is relayed.
ToolCallReply(k, status) ==
  /\ tc[k] = "calling"
  /\ tc' = [tc EXCEPT ![k] = "done"]
  /\ tcResp' = [tcResp EXCEPT ![k] = status]
  /\ UNCHANGED <<runVars, subVars, tr, queueVars, popped, posts>>

\* Lines 136-138: the POST raised (unreachable executor, timeout); nothing
\* catches it, the framework answers 500.
ToolCallError(k) ==
  /\ tc[k] = "calling"
  /\ tc' = [tc EXCEPT ![k] = "failed"]
  /\ tcResp' = [tcResp EXCEPT ![k] = 500]
  /\ UNCHANGED <<runVars, subVars, tr, queueVars, popped, posts>>

(***************************************************************************)
(* The coordinator, the publisher and the result sink.  The gateway shares *)
(* no state with them and is left to SpecAll below.                        *)
(***************************************************************************)
Next ==
  \/ \E c \in Calls, req \in RunRequests :
       RunRequest(c, req.token, req.runId, req.goal)
  \/ \E c \in Calls, reply \in BackendReplies : RunBackendReply(c, reply)
  \/ \E c \in Calls : RunBackendException(c)
  \/ \E c \in Calls : RunClassify(c)
  \/ \E c \in Calls : BgActStart(c)
  \/ \E c \in Calls : BgFinish(c)
  \/ \E c \in Calls : BgFail(c)
  \/ \E s \in Subs, token \in Tokens, rid \in RunIds : Subscribe(s, token, rid)
  \/ \E s \in Subs : SubStart(s)
  \/ \E s \in Subs : SubCheck(s)
  \/ \E s \in Subs : SubPop(s)
  \/ \E s \in Subs : SubSleep(s)
  \/ \E s \in Subs : Disconnect(s)
  \/ \E t \in Reports, req \in ToolResultRequests :
       ToolResult(t, req.token, req.runId, req.tool, req.result)

Spec == Init /\ [][Next]_vars

(***************************************************************************)
(* All four endpoints, with one subscription.                              *)
(***************************************************************************)
NextOne ==
  \/ \E c \in Calls, req \in RunRequests :
       RunRequest(c, req.token, req.runId, req.goal)
  \/ \E c \in Calls, reply \in BackendReplies : RunBackendReply(c, reply)
  \/ \E c \in Calls : RunBackendException(c)
  \/ \E c \in Calls : RunClassify(c)
  \/ \E c \in Calls : BgActStart(c)
  \/ \E c \in Calls : BgFinish(c)
  \/ \E c \in Calls : BgFail(c)
  \/ \E token \in Tokens, rid \in RunIds : Subscribe(1, token, rid)
  \/ SubStart(1)
  \/ SubCheck(1)
  \/ SubPop(1)
  \/ SubSleep(1)
  \/ Disconnect(1)
  \/ \E t \in Reports, req \in ToolResultRequests :
       ToolResult(t, req.token, req.runId, req.tool, req.result)

NextAll ==
  \/ NextOne
  \/ \E k \in Gateways, req \in ToolCallRequests :
       ToolCallRequest(k, req.token, req.name)
  \/ \E k \in Gateways, status \in DownstreamStatuses : ToolCallReply(k, status)
  \/ \E k \in Gateways : ToolCallError(k)

SpecAll == Init /\ [][NextAll]_vars

(***************************************************************************)
(* Fair scheduling, for one run ("r1") with well-formed requests and two   *)
(* subscriptions.  The event loop runs every ready coroutine: a handler    *)
(* past its await of the backend (which answers or raises within the 20 s  *)
(* client timeout, line 66), the background task (its sleep of line 101    *)
(* ends) and the generator of an open stream (its sleep of line 124 ends). *)
(* Requests, failures and disconnects are the environment's and get no     *)
(* fairness.                                                               *)
(***************************************************************************)
NextLive ==
  \/ \E c \in Calls, g \in GoalInputs \ {NoGoal, <<>>} :
       RunRequest(c, TW_SHARED_TOKEN, "r1", g)
  \/ \E c \in Calls, reply \in BackendReplies : RunBackendReply(c, reply)
  \/ \E c \in Calls : RunBackendException(c)
  \/ \E c \in Calls : RunClassify(c)
  \/ \E c \in Calls : BgActStart(c)
  \/ \E c \in Calls : BgFinish(c)
  \/ \E c \in Calls : BgFail(c)
  \/ \E s \in Subs : Subscribe(s, TW_SHARED_TOKEN, "r1")
  \/ \E s \in Subs : SubStart(s)
  \/ \E s \in Subs : SubCheck(s)
  \/ \E s \in Subs : SubPop(s)
  \/ \E s \in Subs : SubSleep(s)
  \/ \E s \in Subs : Disconnect(s)
  \/ \E t \in Reports :
       ToolResult(t, TW_SHARED_TOKEN, "r1", chosen_tool, None)

Fairness ==
  /\ \A c \in Calls :
       /\ WF_vars(\E reply \in BackendReplies : RunBackendReply(c, reply))
       /\ WF_vars(RunClassify(c))
       /\ WF_vars(BgActStart(c))
       /\ WF_vars(BgFinish(c))
  /\ \A s \in Subs :
       /\ WF_vars(SubStart(s))
       /\ WF_vars(SubCheck(s))
       /\ WF_vars(SubPop(s))
       /\ WF_vars(SubSleep(s))

SpecLive == Init /\ [][NextLive]_vars /\ Fairness

(***************************************************************************)
(* The same server at the capacity of one deque.  InitCap is the state     *)
(* after PreFill accepted /tw/tool-result reports for run "r1" and nothing *)
(* else; NextCap is Next with every request addressed to "r1", a valid     *)
(* token, an actionable goal, and a single subscriber.                     *)
(***************************************************************************)
PreFill == QueueMaxLen - 2
ActionableGoals == {g \in GoalInputs \ {NoGoal} : is_actionable(g)}

PreFilled ==
  [i \in 1..PreFill |->
     [ActResultEv(chosen_tool, ReportedResult(None)) EXCEPT
        !.id = i, !.run = "r1"]]

InitCap ==
  /\ RUN_QUEUES = [r \in {"r1"} |-> PreFilled]
  /\ pc = [c \in Calls |-> "idle"]
  /\ run_id = [c \in Calls |-> None]
  /\ goal = [c \in Calls |-> NoGoal]
  /\ bg = [c \in Calls |-> "none"]
  /\ spc = [s \in Subs |-> "idle"]
  /\ srun = [s \in Subs |-> None]
  /\ connected = [s \in Subs |-> FALSE]
  /\ tr = [t \in Reports |-> "idle"]
  /\ enqueued = [r \in RunIds |-> IF r = "r1" THEN PreFilled ELSE <<>>]
  /\ evicted = [r \in RunIds |-> {}]
  /\ popped = [r \in RunIds |-> <<>>]
  /\ delivered = [s \in Subs |-> <<>>]
  /\ appended = [c \in Calls |-> <<>>]
  /\ tc = [k \in Gateways |-> "idle"]
  /\ tcResp = [k \in Gateways |-> 0]
  /\ posts = <<>>

NextCap ==
  \/ \E c \in Calls, g \in ActionableGoals :
       RunRequest(c, TW_SHARED_TOKEN, "r1", g)
  \/ \E c \in Calls, reply \in BackendReplies : RunBackendReply(c, reply)
  \/ \E c \in Calls : RunBackendException(c)
  \/ \E c \in Calls : RunClassify(c)
  \/ \E c \in Calls : BgActStart(c)
  \/ \E c \in Calls : BgFinish(c)
  \/ \E c \in Calls : BgFail(c)
  \/ Subscribe(1, TW_SHARED_TOKEN, "r1")
  \/ SubStart(1)
  \/ SubCheck(1)
  \/ SubPop(1)
  \/ SubSleep(1)
  \/ \E t \in Reports :
       ToolResult(t, TW_SHARED_TOKEN, "r1", chosen_tool, None)

SpecCap == InitCap /\ [][NextCap]_vars

(***************************************************************************)
(* Vocabulary of the properties.                                           *)
(***************************************************************************)
Kind(e) == <<e.type, e.status>>
Kinds(events) == [i \in 1..Len(events) |-> Kind(events[i])]

Assistant == <<"assistant", "">>
Plan == <<"plan", "">>
ActStart == <<"act", "start">>
ActResult == <<"act", "result">>
Done == <<"done", "success">>

Accepted(c) == pc[c] \in {"backend", "classify", "returned"}
Min(a, b) == IF a < b THEN a ELSE b

\* The run of call c saw no other /tw/run call and no /tw/tool-result.
AloneOnRun(c) ==
  /\ \A d \in Calls \ {c} : Accepted(d) => run_id[d] # run_id[c]
  /\ \A i \in 1..Len(enqueued[run_id[c]]) :
       Kind(enqueued[run_id[c]][i]) # ActResult

(***************************************************************************)
(* C1.  The events delivered on one subscription are in the order in which *)
(* they were appended to the run's deque (ids are enqueue positions),      *)
(* whoever appended them, and each is the event enqueued at that position. *)
(***************************************************************************)
C1_FifoDelivery ==
  \A s \in Subs :
    LET d == delivered[s]
    IN \A i \in 1..Len(d) : \A j \in 1..Len(d) :
         (i < j /\ d[i] # Heartbeat /\ d[j] # Heartbeat)
           => /\ d[i].id < d[j].id
              /\ d[i] = enqueued[srun[s]][d[i].id]
              /\ d[j] = enqueued[srun[s]][d[j].id]

\* A subscriber has received plan, then an injected act(result), then done.
C1_Witness ==
  \E s \in Subs :
    \E i \in 1..Len(delivered[s]) : \E j \in 1..Len(delivered[s]) :
      \E k \in 1..Len(delivered[s]) :
        /\ i < j /\ j < k
        /\ Kind(delivered[s][i]) = Plan
        /\ Kind(delivered[s][j]) = ActResult
        /\ Kind(delivered[s][k]) = Done

(***************************************************************************)
(* C2.  A returned /tw/run call with a non-actionable goal, alone on its   *)
(* run, has put exactly assistant, done(success) in the run's history,     *)
(* whatever the backend answered.                                          *)
(***************************************************************************)
C2_ChatOnlySequence ==
  \A c \in Calls :
    (pc[c] = "returned" /\ ~is_actionable(goal[c]) /\ AloneOnRun(c))
      => /\ Kinds(enqueued[run_id[c]]) = <<Assistant, Done>>
         /\ Kinds(appended[c]) = <<Assistant, Done>>

(***************************************************************************)
(* C3.  A /tw/run call with an actionable goal whose background sequence   *)
(* finished without failing has appended assistant, plan, act(start),      *)
(* assistant, done(success), in this order.                                *)
(***************************************************************************)
C3_ActionableSequence ==
  \A c \in Calls :
    (bg[c] = "finished" /\ \A d \in Calls \ {c} : Accepted(d) => run_id[d] # run_id[c])
      => Kinds(appended[c]) = <<Assistant, Plan, ActStart, Assistant, Done>>

(***************************************************************************)
(* C4.  Original statement: whenever /tw/tool-result appends its           *)
(* act(result) to a run for which an actionable /tw/run call has been      *)
(* accepted and whose done event has not been enqueued yet, act(start) is  *)
(* already in the run's history.                                           *)
(***************************************************************************)
InProgress(r) ==
  /\ \E c \in Calls : Accepted(c) /\ run_id[c] = r /\ is_actionable(goal[c])
  /\ \A i \in 1..Len(enqueued[r]) : Kind(enqueued[r][i]) # Done

Injected(r) ==
  /\ Len(enqueued'[r]) = Len(enqueued[r]) + 1
  /\ Kind(enqueued'[r][Len(enqueued'[r])]) = ActResult

C4_ResultNeverBeforeStart ==
  [][\A r \in RunIds :
       (InProgress(r) /\ Injected(r))
         => \E i \in 1..Len(enqueued[r]) : Kind(enqueued[r][i]) = ActStart]_vars

(***************************************************************************)
(* C4, amended.  An act(result) injected after an act(start) was enqueued  *)
(* (its id is larger) never sits before that act(start) in the deque and   *)
(* is never delivered to a subscriber before it.                           *)
(***************************************************************************)
StartThenResult(q) ==
  \A i \in 1..Len(q) : \A j \in 1..Len(q) :
    (Kind(q[i]) = ActStart /\ Kind(q[j]) = ActResult /\ q[i].id < q[j].id)
      => i < j

C4_ResultAfterStart ==
  /\ \A r \in DOMAIN RUN_QUEUES : StartThenResult(RUN_QUEUES[r])
  /\ \A s \in Subs : StartThenResult(delivered[s])

\* act(start) and a later act(result) are buffered together, and a
\* subscriber has been delivered such a pair.
C4_Witness ==
  \E s \in Subs :
    /\ \E i \in 1..Len(delivered[s]) : \E j \in 1..Len(delivered[s]) :
         /\ Kind(delivered[s][i]) = ActStart
         /\ Kind(delivered[s][j]) = ActResult
         /\ delivered[s][i].id < delivered[s][j].id

(***************************************************************************)
(* C5.  Once the backend step of an accepted /tw/run call is over, the     *)
(* call has appended exactly one assistant event, and it precedes the      *)
(* call's done or plan event.                                              *)
(***************************************************************************)
C5_AssistantWhateverBackend ==
  \A c \in Calls :
    pc[c] \in {"classify", "returned"}
      => /\ appended[c] # <<>>
         /\ Kind(appended[c][1]) = Assistant
         /\ \A i \in 2..Len(appended[c]) :
              Kind(appended[c][i]) = Assistant
                => \E j \in 2..(i - 1) : Kind(appended[c][j]) \in {Plan, Done}

(***************************************************************************)
(* C6.  A deque never holds more than 500 events; as long as nothing was   *)
(* drained from it, it holds the most recent min(n, 500) of the n events   *)
(* enqueued, in enqueue order, the evicted ones are exactly the n -        *)
(* min(n, 500) oldest, and the newest event is buffered.                   *)
(***************************************************************************)
C6_BoundedMostRecent ==
  \A r \in DOMAIN RUN_QUEUES :
    LET q == RUN_QUEUES[r]
        n == Len(enqueued[r])
        m == Min(n, QueueMaxLen)
    IN /\ Len(q) <= QueueMaxLen
       /\ popped[r] = <<>>
            => /\ q = SubSeq(enqueued[r], n - m + 1, n)
               /\ evicted[r] = 1..(n - m)
       /\ (n > 0 /\ evicted[r] # {} /\ popped[r] = <<>>) => q[Len(q)].id = n

\* More than 500 events were enqueued for a run and none was drained.
C6_Witness ==
  /\ Len(enqueued["r1"]) > QueueMaxLen + 1
  /\ popped["r1"] = <<>>
  /\ Len(RUN_QUEUES["r1"]) = QueueMaxLen

(***************************************************************************)
(* C7.  What a subscriber receives starts with the heartbeat: the          *)
(* heartbeat is the first item delivered and only the first, and nothing   *)
(* is delivered before the generator has started.                          *)
(***************************************************************************)
C7_HeartbeatFirst ==
  \A s \in Subs :
    /\ \A i \in 1..Len(delivered[s]) : (delivered[s][i] = Heartbeat) <=> (i = 1)
    /\ spc[s] \in {"idle", "403", "open"} => delivered[s] = <<>>

\* One subscriber got the heartbeat and then events that were buffered
\* before its generator started; another got the heartbeat on a run that
\* never had an event.
C7_Witness ==
  \E s \in Subs : \E t \in Subs :
    /\ Len(delivered[s]) >= 3
    /\ delivered[s][1] = Heartbeat
    /\ delivered[t] = <<Heartbeat>>
    /\ enqueued[srun[t]] = <<>>

(***************************************************************************)
(* C8.  Every event ever enqueued for a run is, at every moment, exactly   *)
(* one of: buffered in the deque once, evicted by maxlen, or removed by    *)
(* popleft once.                                                           *)
(***************************************************************************)
C8_NoLossNoDuplicate ==
  \A r \in RunIds :
    LET buffered == Ids(QueueOf(r))
        drained == {popped[r][i] : i \in 1..Len(popped[r])}
    IN \* no id twice in the deque, none drained twice
       /\ Cardinality(buffered) = Len(QueueOf(r))
       /\ Cardinality(drained) = Len(popped[r])
       \* the three sets partition the ids enqueued
       /\ buffered \cup drained \cup evicted[r] = 1..Len(enqueued[r])
       /\ Len(QueueOf(r)) + Len(popped[r]) + Cardinality(evicted[r])
            = Len(enqueued[r])
       \* and what is buffered is the event that was enqueued
       /\ \A i \in 1..Len(QueueOf(r)) :
            QueueOf(r)[i] = enqueued[r][QueueOf(r)[i].id]

\* Some events of a run were evicted, some drained while the handler was
\* still to enqueue, and some are buffered.
C8_Witness ==
  /\ evicted["r1"] # {}
  /\ popped["r1"] # <<>>
  /\ RUN_QUEUES["r1"] # <<>>
  /\ \E c \in Calls : bg[c] = "finished"
  /\ \E t \in Reports : tr[t] = "200"

(***************************************************************************)
(* C9.  The step on which /tw/run returns {runId} for an actionable goal   *)
(* leaves plan as the last event the call has appended, with none of the   *)
(* background sequence's events appended and the background task spawned;  *)
(* and act(start) is never appended before plan.                           *)
(***************************************************************************)
Returns(c) == pc[c] # "returned" /\ pc'[c] = "returned"

C9_PlanThenReturn ==
  /\ [][\A c \in Calls :
          (Returns(c) /\ is_actionable(goal[c]))
            => /\ appended'[c] # <<>>
               /\ Kind(appended'[c][Len(appended'[c])]) = Plan
               /\ \A i \in 1..Len(appended'[c]) :
                    Kind(appended'[c][i]) \notin {ActStart, Done}
               /\ Cardinality({i \in 1..Len(appended'[c]) :
                                 Kind(appended'[c][i]) = Assistant}) <= 1
               /\ bg'[c] = "spawned"]_vars
  /\ [](\A c \in Calls : \A i \in 1..Len(appended[c]) :
          Kind(appended[c][i]) = ActStart
            => \E j \in 1..(i - 1) : Kind(appended[c][j]) = Plan)

\* The response has been produced, the plan is enqueued and the background
\* task has not run yet.
C9_Witness ==
  \E c \in Calls :
    /\ pc[c] = "returned"
    /\ bg[c] = "spawned"
    /\ Kinds(appended[c]) = <<Assistant, Plan>>

(***************************************************************************)
(* C10.  Once the client of a subscription is gone, its generator takes    *)
(* no step that removes an event from the run's deque.                     *)
(***************************************************************************)
C10_NoDrainAfterDisconnect ==
  [][\A s \in Subs :
       (spc[s] \in {"open", "waiting", "drain"} /\ ~connected[s]) => ~SubPop(s)]_vars


\* The domain events subscriber s has received.
Received(s) == {i \in 1..Len(delivered[s]) : delivered[s][i] # Heartbeat}
OnRun(r) == {s \in Subs : srun[s] = r}

(***************************************************************************)
(* C11.  No event of a run is delivered twice, on one subscription or on   *)
(* two subscriptions to the run, concurrent or one after the other: the    *)
(* deliveries to the subscribers of a run are as many as the distinct      *)
(* enqueue positions delivered, and each is an event drained once.         *)
(***************************************************************************)
C11_DeliveredAtMostOnce ==
  \A r \in RunIds :
    LET got == UNION {{<<s, i>> : i \in Received(s)} : s \in OnRun(r)}
        ids == {delivered[x[1]][x[2]].id : x \in got}
    IN /\ Cardinality(got) = Cardinality(ids)
       /\ Cardinality(ids) <= Len(popped[r])
       /\ \A i \in 1..Len(popped[r]) : \A j \in 1..Len(popped[r]) :
            i # j => popped[r][i] # popped[r][j]

\* A subscription has ended after receiving an event, and another
\* subscription to the same run has received a later one.
C11_Witness ==
  \E s \in Subs : \E t \in Subs \ {s} :
    /\ srun[s] = srun[t]
    /\ spc[s] = "closed"
    /\ \E i \in Received(s) : \E j \in Received(t) :
         delivered[s][i].id < delivered[t][j].id

\* Report req, handled in slot t, passes the token gate and names a run and
\* a tool.
AcceptedReport(t, req) ==
  /\ req.token = TW_SHARED_TOKEN /\ Truthy(req.runId) /\ Truthy(req.tool)
  /\ ToolResult(t, req.token, req.runId, req.tool, req.result)

Last(q) == q[Len(q)]

(***************************************************************************)
(* C12.  An accepted /tw/tool-result report adds exactly one event to the  *)
(* history and to the tail of the queue of the reported run, an            *)
(* act(result) naming the reported tool; the handler answers 200 in the    *)
(* same step, with no run handler, background task or stream moving; and   *)
(* the queue and history of every other run are as before.  No /tw/run     *)
(* call on the run is required, and a run that reached done takes the      *)
(* event as well.                                                          *)
(***************************************************************************)
C12_ToolResultAppendsOne ==
  [][\A t \in Reports : \A req \in ToolResultRequests :
       AcceptedReport(t, req)
         => /\ Len(enqueued'[req.runId]) = Len(enqueued[req.runId]) + 1
            /\ SubSeq(enqueued'[req.runId], 1, Len(enqueued[req.runId]))
                 = enqueued[req.runId]
            /\ Kind(Last(enqueued'[req.runId])) = ActResult
            /\ Last(enqueued'[req.runId]).tool = req.tool
            /\ req.runId \in DOMAIN RUN_QUEUES'
            /\ Last(RUN_QUEUES'[req.runId]) = Last(enqueued'[req.runId])
            /\ Len(RUN_QUEUES'[req.runId])
                 = Min(Len(QueueOf(req.runId)) + 1, QueueMaxLen)
            /\ tr'[t] = "200"
            /\ UNCHANGED <<runVars, subVars, appended>>
            /\ \A r \in RunIds \ {req.runId} :
                 /\ enqueued'[r] = enqueued[r]
                 /\ (r \in DOMAIN RUN_QUEUES') = (r \in DOMAIN RUN_QUEUES)
                 /\ r \in DOMAIN RUN_QUEUES => RUN_QUEUES'[r] = RUN_QUEUES[r]]_vars

\* A report was accepted for a run that had already reached done.
C12_Witness ==
  /\ \E t \in Reports : tr[t] = "200"
  /\ \E r \in RunIds :
       /\ Len(enqueued[r]) >= 2
       /\ Kind(Last(enqueued[r])) = ActResult
       /\ Kind(enqueued[r][Len(enqueued[r]) - 1]) = Done


\* The step touched no queue, made no outbound request and spawned no task.
NoSideEffect ==
  UNCHANGED <<RUN_QUEUES, enqueued, evicted, appended, popped, delivered,
              posts, bg>>

(***************************************************************************)
(* C13.  A request that passes the token gate but lacks a required field   *)
(* (/tw/run without runId or goal, or with an empty one; /tw/tool-call     *)
(* without name; /tw/tool-result without runId or tool) is answered 400 in *)
(* one step that appends no event to any queue, creates no queue, makes no *)
(* outbound request and spawns no background task; a rejected /tw/run call *)
(* never appends an event or gets a background task later either.          *)
(***************************************************************************)
C13_InvalidRequestNoEffect ==
  /\ [][/\ \A c \in Calls : \A req \in RunRequests :
            ( /\ req.token = TW_SHARED_TOKEN
              /\ (~Truthy(req.runId) \/ req.goal \in {NoGoal, <<>>})
              /\ RunRequest(c, req.token, req.runId, req.goal) )
              => (pc'[c] = "400" /\ NoSideEffect)
        /\ \A k \in Gateways : \A req \in ToolCallRequests :
            ( /\ req.token = TW_SHARED_TOKEN /\ ~Truthy(req.name)
              /\ ToolCallRequest(k, req.token, req.name) )
              => (tc'[k] = "400" /\ NoSideEffect)
        /\ \A t \in Reports : \A req \in ToolResultRequests :
            ( /\ req.token = TW_SHARED_TOKEN
              /\ (~Truthy(req.runId) \/ ~Truthy(req.tool))
              /\ ToolResult(t, req.token, req.runId, req.tool, req.result) )
              => (tr'[t] = "400" /\ NoSideEffect)]_vars
  /\ [](\A c \in Calls :
          pc[c] = "400" => (appended[c] = <<>> /\ bg[c] = "none"))
  /\ [](\A k \in Gateways : tc[k] = "400" => tcResp[k] = 0)

\* Each of the three endpoints has rejected a request for a missing field.
C13_Witness ==
  /\ \E c \in Calls : pc[c] = "400"
  /\ \E k \in Gateways : tc[k] = "400"
  /\ \E t \in Reports : tr[t] = "400"
  /\ posts = <<>>
  /\ \A r \in RunIds : enqueued[r] = <<>>


(***************************************************************************)
(* C14.  On /tw/run, /tw/events, /tw/tool-call and /tw/tool-result a       *)
(* request whose token is absent or wrong is answered 403 in one step,     *)
(* with a valid body or not: that step enqueues nothing, creates and       *)
(* drains no queue, opens no stream, makes no outbound request and spawns  *)
(* no task, and the refused call or subscription does none of these later. *)
(***************************************************************************)
C14_BadTokenRejectedFirst ==
  /\ [][/\ \A c \in Calls : \A req \in RunRequests :
            (req.token \in BadTokens
               /\ RunRequest(c, req.token, req.runId, req.goal))
              => (pc'[c] = "403" /\ NoSideEffect /\ UNCHANGED connected)
        /\ \A s \in Subs : \A token \in Tokens : \A rid \in RunIds :
            (token \in BadTokens /\ Subscribe(s, token, rid))
              => (spc'[s] = "403" /\ NoSideEffect /\ UNCHANGED connected)
        /\ \A k \in Gateways : \A req \in ToolCallRequests :
            (req.token \in BadTokens
               /\ ToolCallRequest(k, req.token, req.name))
              => (tc'[k] = "403" /\ NoSideEffect /\ UNCHANGED connected)
        /\ \A t \in Reports : \A req \in ToolResultRequests :
            (req.token \in BadTokens
               /\ ToolResult(t, req.token, req.runId, req.tool, req.result))
              => (tr'[t] = "403" /\ NoSideEffect /\ UNCHANGED connected)]_vars
  /\ [](\A c \in Calls :
          pc[c] = "403" => (appended[c] = <<>> /\ bg[c] = "none"))
  /\ [](\A s \in Subs :
          spc[s] = "403" => (delivered[s] = <<>> /\ ~connected[s]))
  /\ [](\A k \in Gateways : tc[k] = "403" => tcResp[k] = 0)

\* Each of the four endpoints has refused a request.
C14_Witness ==
  /\ \E c \in Calls : pc[c] = "403"
  /\ \E s \in Subs : spc[s] = "403"
  /\ \E k \in Gateways : tc[k] = "403"
  /\ \E t \in Reports : tr[t] = "403"
  /\ posts = <<>>
  /\ RUN_QUEUES = << >>


\* The queue of run r is the same before and after the step, and so is
\* what was ever enqueued on it and drained from it.
Untouched(r) ==
  /\ (r \in DOMAIN RUN_QUEUES') = (r \in DOMAIN RUN_QUEUES)
  /\ r \in DOMAIN RUN_QUEUES => RUN_QUEUES'[r] = RUN_QUEUES[r]
  /\ enqueued'[r] = enqueued[r]
  /\ popped'[r] = popped[r]
  /\ evicted'[r] = evicted[r]

\* The step is one of call c (its handler or its background task), or one
\* of subscription s.
CallStep(c) == pc'[c] # pc[c] \/ bg'[c] # bg[c] \/ appended'[c] # appended[c]
SubStep(s) ==
  spc'[s] # spc[s] \/ delivered'[s] # delivered[s]
    \/ connected'[s] # connected[s]

(***************************************************************************)
(* C15.  Runs are independent.  A step of a /tw/run call or of its         *)
(* background sequence, a /tw/tool-result report and a step of a           *)
(* subscription each leave the queue of every run other than the one they  *)
(* name as it was; every event sits in the queue of the run it was         *)
(* enqueued for, and a subscriber only receives events enqueued for the    *)
(* run it subscribed to.                                                   *)
(***************************************************************************)
C15_RunsIndependent ==
  /\ [][/\ \A c \in Calls :
            CallStep(c) => \A r \in RunIds \ {run_id'[c]} : Untouched(r)
        /\ \A s \in Subs :
            SubStep(s) => \A r \in RunIds \ {srun'[s]} : Untouched(r)
        /\ \A t \in Reports : \A req \in ToolResultRequests :
            ToolResult(t, req.token, req.runId, req.tool, req.result)
              => \A r \in RunIds \ {req.runId} : Untouched(r)]_vars
  /\ [](\A r \in DOMAIN RUN_QUEUES :
          \A i \in 1..Len(RUN_QUEUES[r]) : RUN_QUEUES[r][i].run = r)
  /\ [](\A s \in Subs :
          \A i \in Received(s) : delivered[s][i].run = srun[s])

\* Two runs have events, one from a /tw/run call and one from a report, and
\* subscribers of both runs have received some.
C15_Witness ==
  \E s \in Subs : \E t \in Subs :
    /\ srun[s] = "r1" /\ srun[t] = "r2"
    /\ Received(s) # {} /\ Received(t) # {}
    /\ \E c \in Calls : Accepted(c) /\ appended[c] # <<>>


Error == <<"error", "">>
Terminals(c) ==
  {i \in 1..Len(appended[c]) : Kind(appended[c][i]) \in {Done, Error}}

(***************************************************************************)
(* C16.  Under fair scheduling of the handler and of the background task,  *)
(* every accepted /tw/run call leads to a done or an error event appended  *)
(* by the call to its run's history, whatever the backend does (200, an    *)
(* error status, an exception) and with or without a subscriber.           *)
(***************************************************************************)
C16_AcceptedRunTerminates ==
  \A c \in Calls :
    Accepted(c)
      ~> (\E i \in Terminals(c) :
            \E n \in 1..Len(enqueued[run_id[c]]) :
              enqueued[run_id[c]][n] = appended[c][i])

\* An actionable run has reached its terminal event with no subscription
\* ever opened.
C16_Witness ==
  \E c \in Calls :
    /\ is_actionable(goal[c])
    /\ Terminals(c) # {}
    /\ \A s \in Subs : spc[s] = "idle"


Errors(c) == {i \in 1..Len(appended[c]) : Kind(appended[c][i]) = Error}

(***************************************************************************)
(* C17.  A failing step of the background sequence appends one error event *)
(* with code E_RUNTIME to the run's queue and ends the sequence: the call  *)
(* has exactly one error event, it is the last event the call appended, no *)
(* done is among the call's events, the task is never started again, and   *)
(* the /tw/run response, already returned, is not changed by the failure.  *)
(***************************************************************************)
C17_BackgroundFailureIsTerminal ==
  /\ [](\A c \in Calls :
          (bg[c] = "failed" \/ Errors(c) # {})
            => /\ bg[c] = "failed"
               /\ pc[c] = "returned"
               /\ Errors(c) = {Len(appended[c])}
               /\ Last(appended[c]).data = "E_RUNTIME"
               /\ \A i \in 1..Len(appended[c]) : Kind(appended[c][i]) # Done
               /\ \E n \in 1..Len(enqueued[run_id[c]]) :
                    enqueued[run_id[c]][n] = Last(appended[c]))
  /\ [][\A c \in Calls :
          /\ BgFail(c)
               => /\ Len(appended'[c]) = Len(appended[c]) + 1
                  /\ Last(RUN_QUEUES'[run_id[c]]) = Last(appended'[c])
                  /\ pc' = pc
          /\ bg[c] = "failed"
               => /\ bg'[c] = "failed"
                  /\ appended'[c] = appended[c]
                  /\ pc'[c] = pc[c]]_vars

\* The sequence failed after act(start), and a report still reached the
\* run afterwards.
C17_Witness ==
  \E c \in Calls :
    /\ bg[c] = "failed"
    /\ \E i \in 1..Len(appended[c]) : Kind(appended[c][i]) = ActStart
    /\ Kind(Last(enqueued[run_id[c]])) = ActResult


\* The longest history of a run: assistant, plan, act(start), assistant and
\* done of each call, and the reports.
MaxEvents == 5 * MaxCalls + MaxToolResults

\* Subscriber s is past its heartbeat and its client is there, before and
\* after the step.
Listening(s) ==
  /\ spc[s] \in {"waiting", "drain"}
  /\ connected[s] /\ connected'[s]

(***************************************************************************)
(* C18 as stated, in its finite form: whenever an event is drained from    *)
(* the queue of a run while a subscriber of that run is connected and      *)
(* streaming, that subscriber is the one it is delivered to (a drained     *)
(* event is gone from the queue, so a connected subscriber that does not   *)
(* get it at that step never gets it).                                     *)
(***************************************************************************)
C18_ConnectedSubscriberGetsAll ==
  [][\A s \in Subs :
       (Listening(s) /\ popped'[srun[s]] # popped[srun[s]])
         => /\ delivered'[s] # delivered[s]
            /\ Last(delivered'[s]).id = Last(popped'[srun[s]])]_vars

\* Every event enqueued so far for the run of s was evicted or delivered to
\* s.  An event enqueued while s is connected is covered by the next state
\* in which s has caught up.
CaughtUp(s) ==
  \A n \in 1..Len(enqueued[srun[s]]) :
    \/ n \in evicted[srun[s]]
    \/ \E i \in Received(s) : delivered[s][i].id = n

(***************************************************************************)
(* C18, amended: as long as the subscription is the only one opened on the *)
(* run, every event enqueued for the run, before the subscription or       *)
(* during it, while the loop sleeps or while it drains, is eventually      *)
(* delivered to the subscriber, unless the capacity rule evicts it or the  *)
(* subscriber disconnects.  Subscriptions are numbered as they arrive, so  *)
(* the only subscription on a run is the first.                            *)
(***************************************************************************)
C18_SoleSubscriberGetsAll ==
  connected[1]
    ~> \/ ~connected[1]
       \/ \E t \in OnRun(srun[1]) \ {1} : spc[t] # "idle"
       \/ CaughtUp(1)

\* The subscriber, still connected, has received all events of a finished
\* actionable run and of a report, and its loop is sleeping again.
C18_Witness ==
  /\ connected[1] /\ spc[1] = "waiting"
  /\ OnRun(srun[1]) = {1}
  /\ Len(enqueued[srun[1]]) = MaxEvents
  /\ Cardinality(Received(1)) = MaxEvents
  /\ QueueOf(srun[1]) = <<>>


\* Call c has returned and has no background task left to run.
Complete(c) == pc[c] = "returned" /\ bg[c] \in {"none", "finished", "failed"}

(***************************************************************************)
(* C19.  An accepted /tw/run call appends at most one terminal event, done *)
(* or error, and exactly one once its handler has returned and its         *)
(* background sequence, if any, has ended; the terminal event is the last  *)
(* event the call appends.  Whatever is enqueued on the run after it comes *)
(* from a /tw/tool-result report or from another /tw/run call.             *)
(***************************************************************************)
C19_OneTerminalLast ==
  /\ [](\A c \in Calls :
          /\ Terminals(c) \subseteq {Len(appended[c])}
          /\ Terminals(c) # {} <=> (Accepted(c) /\ Complete(c)))
  /\ [][\A c \in Calls :
          Terminals(c) # {}
            => /\ appended'[c] = appended[c]
               /\ enqueued'[run_id[c]] # enqueued[run_id[c]]
                    => \/ /\ \E t \in Reports : tr[t] = "idle" /\ tr'[t] = "200"
                          /\ Kind(Last(enqueued'[run_id[c]])) = ActResult
                       \/ \E d \in Calls \ {c} : CallStep(d)]_vars

\* An actionable call has ended, and its terminal event is followed on the
\* run by the event of a report.
C19_Witness ==
  \E c \in Calls :
    /\ Complete(c) /\ is_actionable(goal[c])
    /\ Terminals(c) # {}
    /\ Len(enqueued[run_id[c]]) > Len(appended[c])
    /\ Kind(Last(enqueued[run_id[c]])) = ActResult


(***************************************************************************)
(* C20.  The act(result) event of an accepted /tw/tool-result report       *)
(* carries the reported result as it is whenever the body has a result     *)
(* field, an empty object included, and {ok: true} only when the field is  *)
(* absent.                                                                 *)
(***************************************************************************)
C20_ResultCarriedUnchanged ==
  [][\A t \in Reports : \A req \in ToolResultRequests :
       AcceptedReport(t, req)
         => Last(enqueued'[req.runId]).data
              = IF req.result = None THEN "{ok:true}" ELSE req.result]_vars

=============================================================================
